---- MODULE Spec2Model ----
(***************************************************************************)
(* Model of the Docker API reverse proxy of Rancher Desktop's wsl-helper   *)
(* (pkg/dockerproxy/util/reverse_proxy.go): one inbound request handled by *)
(* ReverseProxy.forwardRequest, the periodicHttpFlush goroutine it starts, *)
(* and handleUpgradedConnection with the half-close duplex Pipe.           *)
(***************************************************************************)
EXTENDS Integers, Sequences, FiniteSets, TLC

\* ---------------------------------------------------------------- bounds
\* longest response body / post-upgrade backend stream
MaxBody == 2
\* most bytes the client sends on each side of the hijack
MaxClient == 2

\* ------------------------------------------------------ program constants
StatusSwitchingProtocols == 101
StatusInternalServerError == 500
StatusBadGateway == 502

hostHeaderValue == "api.moby.localhost"
targetProtocol == "http://"

\* backend status codes fed to the proxy
Statuses == {200, 404, StatusSwitchingProtocols}
HeaderKeys == {"A", "B"}

\* ------------------------------------------------------------- helpers
\* the byte stream base+1 .. base+n: every byte is distinct, so loss,
\* duplication and reordering are all visible
Stream(base, n) == [i \in 1..n |-> base + i]

IsPrefix(s, t) == Len(s) <= Len(t) /\ SubSeq(t, 1, Len(s)) = s

Drop(s, n) == SubSeq(s, n + 1, Len(s))

\* http.Header with no entry
EmptyHeader == [k \in HeaderKeys |-> <<>>]

\* http.Header.Add: appends the value to the values of the key
HeaderAdd(h, k, v) == [h EXCEPT ![k] = Append(@, v)]

\* http.Header.Set: replaces the values of the key
HeaderSet(h, k, v) == [h EXCEPT ![k] = <<v>>]

\* AddValues with Set in place of Add: only the last value of a key is kept
RECURSIVE AddValuesSet(_, _, _)
AddValuesSet(h, k, vals) ==
  IF vals = <<>> THEN h
  ELSE AddValuesSet(HeaderSet(h, k, Head(vals)), k, Tail(vals))

\* the inner loop of the header copy: every value of one key, in order
RECURSIVE AddValues(_, _, _)
AddValues(h, k, vals) ==
  IF vals = <<>> THEN h
  ELSE AddValues(HeaderAdd(h, k, Head(vals)), k, Tail(vals))

\* the header copy loop, over the keys in any order
RECURSIVE CopyKeys(_, _, _)
CopyKeys(dst, src, keys) ==
  IF keys = {} THEN dst
  ELSE LET k == CHOOSE x \in keys : TRUE
       IN CopyKeys(AddValues(dst, k, src[k]), src, keys \ {k})

CopyHeader(dst, src) == CopyKeys(dst, src, HeaderKeys)

\* http.ReadResponse's header parse: the header lines of the wire, in wire
\* order, collected per key
RECURSIVE ParseHeader(_)
ParseHeader(lines) ==
  IF lines = <<>> THEN EmptyHeader
  ELSE LET rest == ParseHeader(SubSeq(lines, 1, Len(lines) - 1))
           last == lines[Len(lines)]
       IN [rest EXCEPT ![last[1]] = Append(@, last[2])]

NoResponse == [status |-> 0, header |-> EmptyHeader, body |-> <<>>]
NoRequest == [host |-> "", scheme |-> "", close |-> FALSE]

VARIABLES
  pc,            \* position of forwardRequest / handleUpgradedConnection
  deferred,      \* deferred calls registered so far
  panicked,      \* forwardRequest panicked
  ctxDone,       \* the per-request context is cancelled
  parentDone,    \* the inbound request's own context is cancelled
  hasDirector,   \* proxy.Director != nil
  hasModify,     \* proxy.ModifyResponse != nil
  wIsFlusher,    \* the ResponseWriter implements http.Flusher
  dialCount,     \* calls of proxy.Dial
  backendConn,   \* "none", "open", "closed"
  backendHalf,   \* backendConn implements HalfReadWriteCloser
  outReq,        \* newReq
  directorEdit,  \* what the Director did to newReq ("" before it is due,
                 \* "nil" when proxy.Director is nil)
  sentReq,       \* the request serialized onto backendConn
  wire,          \* the response the backend put on the wire
  backendSent,   \* bytes the backend sent after its 101 headers
  respBuf,       \* bytes left in the bufio.Reader given to http.ReadResponse
  backendPending,\* bytes sent by the backend, still unread on backendConn
  resp,          \* backendResponse
  bodyLeft,      \* backendResponse.Body still to read
  failure,       \* which step failed ("" when none)
  wStatus,       \* status code committed to the client (0: none)
  wHeader,       \* w.Header()
  wFlushed,      \* status line and headers flushed to the client
  wBody,         \* body bytes written through w
  wErrPage,      \* an http.Error page was written through w
  upgradeCalled, \* handleUpgradedConnection was invoked
  flusherStarts, \* number of periodicHttpFlush goroutines started
  fpc,           \* position of periodicHttpFlush
  flushes,       \* the flusher has flushed at least once
  clientConn,    \* hijacked client connection: "none", "open", "closed"
  clientHalf,    \* clientConn implements HalfReadWriteCloser
  hijackBuf,     \* bytes buffered on the client's read side at hijack time
  readerBuf,     \* bufferedClientConn.Reader's buffer
  writerBuf,     \* bufferedClientConn.Writer.Buffered() > 0
  clientPost,    \* bytes the client sends after the hijack
  clientPending, \* of those, the ones not yet read from clientConn
  backendIn,     \* bytes the backend received after the request
  clientIn,      \* bytes the client received on the hijacked connection
  pipeStarted,   \* Pipe was called
  loopAB,        \* client -> backend copy loop: "idle", "run", "done"
  loopBA,        \* backend -> client copy loop
  pipeErr,       \* a copy loop ended on an error
  \* ---- utils.Pipe (pkg/utils/pipe.go)
  upc,           \* position of utils.Pipe: "idle", "dial", "copy", "returned"
  upstream,      \* the dialled upstream connection: "none", "open", "closed"
  conn,          \* the caller's conn: "open", "eof" (peer sent FIN), "reset"
  upstreamEOF,   \* the upstream's peer ended its output
  connIn,        \* bytes sent by conn's peer, not yet read
  upstreamIn,    \* bytes sent by the upstream, not yet read
  toUpstream,    \* bytes written to upstream
  toConn,        \* bytes written to conn
  c2u,           \* goroutine io.Copy(upstream, conn): "none", "run", "ended"
  u2c,           \* io.Copy(conn, upstream): "none", "run", "ended"
  \* ---- migrateWSLDistro and tryRename (TypeScript)
  mpc,           \* position of migrateWSLDistro
  platform,      \* os.platform()
  oldPath,       \* migrateWSLDistro's oldPath
  newPath,       \* migrateWSLDistro's newPath
  guidFound,     \* the registry has a rancher-desktop distribution
  regBasePath,   \* the registry's BasePath value (<<>>: none)
  diskPath,      \* where the distribution's disk file is (<<>>: nowhere)
  diskRemoved,   \* the disk file was deleted
  tryOld,        \* tryRename's oldPath (it is reassigned to the .tmp name)
  deleteOnFailure, \* tryRename's parameter
  renameErr,     \* error code of the failed fs.renameSync ("" when none)
  result         \* what tryRename returned ("" when it has not returned)

cfgVars == <<hasDirector, hasModify, wIsFlusher>>
ctlVars == <<pc, deferred, panicked, failure>>
ctxVars == <<ctxDone, parentDone>>
backVars == <<dialCount, backendConn, backendHalf>>
reqVars == <<outReq, sentReq, directorEdit>>
respVars == <<wire, backendSent, respBuf, backendPending, resp, bodyLeft>>
wVars == <<wStatus, wHeader, wFlushed, wBody, wErrPage>>
flVars == <<flusherStarts, fpc, flushes>>
hjVars == <<clientConn, clientHalf, hijackBuf, readerBuf, writerBuf, clientPost, clientPending>>
pipeVars == <<backendIn, clientIn, pipeStarted, loopAB, loopBA, pipeErr>>
utilsVars == <<upc, upstream, conn, upstreamEOF, connIn, upstreamIn, toUpstream,
               toConn, c2u, u2c>>
migrateVars == <<mpc, platform, oldPath, newPath, guidFound, regBasePath,
                 diskPath, diskRemoved, tryOld, deleteOnFailure, renameErr,
                 result>>
proxyVars == <<cfgVars, ctlVars, ctxVars, backVars, reqVars, respVars, wVars,
               upgradeCalled, flVars, hjVars, pipeVars>>

vars == <<proxyVars, utilsVars, migrateVars>>

\* utils.Pipe has not been called
UtilsIdle ==
  /\ upc = "idle"
  /\ upstream = "none"
  /\ conn = "open"
  /\ upstreamEOF = FALSE
  /\ connIn = <<>>
  /\ upstreamIn = <<>>
  /\ toUpstream = <<>>
  /\ toConn = <<>>
  /\ c2u = "none"
  /\ u2c = "none"

\* migrateWSLDistro has not been called
MigrateIdle ==
  /\ mpc = "idle"
  /\ platform = ""
  /\ oldPath = <<>>
  /\ newPath = <<>>
  /\ guidFound = FALSE
  /\ regBasePath = <<>>
  /\ diskPath = <<>>
  /\ diskRemoved = FALSE
  /\ tryOld = <<>>
  /\ deleteOnFailure = FALSE
  /\ renameErr = ""
  /\ result = ""

\* forwardRequest is entered
ProxyInit ==
  /\ pc = "enter"
  /\ deferred = {}
  /\ panicked = FALSE
  /\ failure = ""
  /\ ctxDone = FALSE
  /\ parentDone = FALSE
  /\ hasDirector \in BOOLEAN
  /\ hasModify \in BOOLEAN
  /\ wIsFlusher \in BOOLEAN
  /\ dialCount = 0
  /\ backendConn = "none"
  /\ backendHalf = FALSE
  /\ outReq = NoRequest
  /\ directorEdit = ""
  /\ sentReq = NoRequest
  /\ wire = NoResponse
  /\ backendSent = <<>>
  /\ respBuf = <<>>
  /\ backendPending = <<>>
  /\ resp = NoResponse
  /\ bodyLeft = <<>>
  /\ wStatus = 0
  /\ wHeader = EmptyHeader
  /\ wFlushed = FALSE
  /\ wBody = <<>>
  /\ wErrPage = FALSE
  /\ upgradeCalled = FALSE
  /\ flusherStarts = 0
  /\ fpc = "none"
  /\ flushes = FALSE
  /\ clientConn = "none"
  /\ clientHalf = FALSE
  /\ hijackBuf = <<>>
  /\ readerBuf = <<>>
  /\ writerBuf = FALSE
  /\ clientPost = <<>>
  /\ clientPending = <<>>
  /\ backendIn = <<>>
  /\ clientIn = <<>>
  /\ pipeStarted = FALSE
  /\ loopAB = "idle"
  /\ loopBA = "idle"
  /\ pipeErr = FALSE

\* no request is being served: the state of the proxy in the
\* specifications of the other two programs
ProxyIdle == ProxyInit /\ ~hasDirector /\ ~hasModify /\ wIsFlusher

Init == ProxyInit /\ UtilsIdle /\ MigrateIdle

\* the hijack succeeded
Hijacked == clientConn # "none"

\* ---------------------------------------------------- return and defers
\* a return (or panic) of forwardRequest, the connections being in states
\* bc and cc: the deferred calls run, among them those of
\* handleUpgradedConnection when it is the one returning
Return(bc, cc) ==
  /\ backendConn' = IF "backendConn.Close" \in deferred THEN "closed" ELSE bc
  /\ clientConn' = IF "clientConn.Close" \in deferred THEN "closed" ELSE cc
  /\ ctxDone' = IF "cancel" \in deferred THEN TRUE ELSE ctxDone
  /\ deferred' = {}
  /\ pc' = "done"

RunDefers == Return(backendConn, clientConn)

\* http.Error(w, msg, code) before anything was committed: the code and an
\* error page go to the client.  Once a status is committed WriteHeader
\* changes nothing; the error text is still written as body bytes unless
\* the writer was hijacked or the committed status (a 101) allows no body.
HttpError(code) ==
  IF wStatus = 0
  THEN /\ wStatus' = code
       /\ wErrPage' = TRUE
       /\ UNCHANGED <<wHeader, wFlushed, wBody>>
  ELSE IF Hijacked \/ wStatus = StatusSwitchingProtocols
       THEN UNCHANGED wVars
       ELSE /\ wErrPage' = TRUE
            /\ UNCHANGED <<wStatus, wHeader, wFlushed, wBody>>

\* Enter without the deferred cancel()
EnterNoDefer ==
  /\ pc = "enter"
  /\ pc' = "dial"
  /\ ctxDone' = parentDone
  /\ UNCHANGED <<deferred, panicked, failure, parentDone, cfgVars, backVars,
                 reqVars, respVars, wVars, upgradeCalled, flVars, hjVars, pipeVars>>
  /\ UNCHANGED <<utilsVars, migrateVars>>

\* ------------------------------------------------------- forwardRequest
\* lines 83-89: derive the cancellable context, defer cancel()
Enter ==
  /\ pc = "enter"
  /\ pc' = "dial"
  /\ ctxDone' = parentDone
  /\ deferred' = deferred \cup {"cancel"}
  /\ UNCHANGED <<panicked, failure, parentDone, cfgVars, backVars, reqVars,
                 respVars, wVars, upgradeCalled, flVars, hjVars, pipeVars>>
  /\ UNCHANGED <<utilsVars, migrateVars>>

\* the client goes away: the inbound request's context is cancelled, and
\* with it the derived one
ParentCancel ==
  /\ ~parentDone
  /\ parentDone' = TRUE
  /\ ctxDone' = IF pc = "enter" THEN ctxDone ELSE TRUE
  /\ UNCHANGED <<cfgVars, ctlVars, backVars, reqVars, respVars, wVars,
                 upgradeCalled, flVars, hjVars, pipeVars>>
  /\ UNCHANGED <<utilsVars, migrateVars>>

\* DialFail with a retry: the failed dial is attempted again
DialFailRetry ==
  /\ pc = "dial"
  /\ dialCount < 3
  /\ dialCount' = dialCount + 1
  /\ UNCHANGED <<ctlVars, ctxVars, cfgVars, backendConn, backendHalf, reqVars,
                 respVars, wVars, upgradeCalled, flVars, hjVars, pipeVars>>
  /\ UNCHANGED <<utilsVars, migrateVars>>

\* lines 91-97: proxy.Dial; on error 502 and return, else defer Close
DialFail ==
  /\ pc = "dial"
  /\ dialCount' = dialCount + 1
  /\ failure' = "dial"
  /\ HttpError(StatusBadGateway)
  /\ RunDefers
  /\ UNCHANGED <<panicked, parentDone, cfgVars, backendHalf, reqVars, respVars,
                 upgradeCalled, flVars, clientHalf, hijackBuf, readerBuf,
                 writerBuf, clientPost, clientPending, pipeVars>>
  /\ UNCHANGED <<utilsVars, migrateVars>>

\* DialOk without the deferred backendConn.Close()
DialOkNoDefer ==
  /\ pc = "dial"
  /\ dialCount' = dialCount + 1
  /\ backendConn' = "open"
  /\ \E h \in BOOLEAN : backendHalf' = h
  /\ pc' = "newreq"
  /\ UNCHANGED <<deferred, panicked, failure, ctxVars, cfgVars, reqVars, respVars,
                 wVars, upgradeCalled, flVars, hjVars, pipeVars>>
  /\ UNCHANGED <<utilsVars, migrateVars>>

DialOk ==
  /\ pc = "dial"
  /\ dialCount' = dialCount + 1
  /\ backendConn' = "open"
  /\ \E h \in BOOLEAN : backendHalf' = h
  /\ deferred' = deferred \cup {"backendConn.Close"}
  /\ pc' = "newreq"
  /\ UNCHANGED <<panicked, failure, ctxVars, cfgVars, reqVars, respVars, wVars,
                 upgradeCalled, flVars, hjVars, pipeVars>>
  /\ UNCHANGED <<utilsVars, migrateVars>>

\* BuildRequest that keeps the authority of the inbound request
BuildRequestInboundHost ==
  /\ pc = "newreq"
  /\ outReq' = [host |-> "inbound.host", scheme |-> targetProtocol, close |-> FALSE]
  /\ pc' = "director"
  /\ UNCHANGED <<deferred, failure, ctxDone, backendConn, clientConn, wVars>>
  /\ UNCHANGED <<panicked, parentDone, cfgVars, dialCount, backendHalf, sentReq,
                 directorEdit, respVars, upgradeCalled, flVars, clientHalf,
                 hijackBuf, readerBuf, writerBuf, clientPost, clientPending,
                 pipeVars>>
  /\ UNCHANGED <<utilsVars, migrateVars>>

\* lines 99-106: build the outbound request for the synthetic target
BuildRequest ==
  /\ pc = "newreq"
  /\ \E ok \in BOOLEAN :
       IF ok
       THEN /\ outReq' = [host |-> hostHeaderValue, scheme |-> targetProtocol,
                          close |-> FALSE]
            /\ pc' = "director"
            /\ UNCHANGED <<deferred, failure, ctxDone, backendConn, clientConn, wVars>>
       ELSE /\ failure' = "newreq"
            /\ HttpError(StatusInternalServerError)
            /\ RunDefers
            /\ UNCHANGED outReq
  /\ UNCHANGED <<panicked, parentDone, cfgVars, dialCount, backendHalf, sentReq,
                 directorEdit, respVars, upgradeCalled, flVars, clientHalf,
                 hijackBuf, readerBuf, writerBuf, clientPost, clientPending,
                 pipeVars>>
  /\ UNCHANGED <<utilsVars, migrateVars>>

\* what a Director may do to the request it is handed
DirectorEdits == {"none", "close", "host"}

Director(req, edit) ==
  CASE edit = "close" -> [req EXCEPT !.close = TRUE]
    [] edit = "host" -> [req EXCEPT !.host = "other.host"]
    [] OTHER -> req

\* ApplyDirector with newReq.Close = false set before the Director runs
ApplyDirectorCloseFirst ==
  /\ pc = "director"
  /\ \E edit \in DirectorEdits :
       /\ outReq' = IF hasDirector
                    THEN Director([outReq EXCEPT !.close = FALSE], edit)
                    ELSE [outReq EXCEPT !.close = FALSE]
       /\ directorEdit' = IF hasDirector THEN edit ELSE "nil"
  /\ pc' = "write"
  /\ UNCHANGED <<deferred, panicked, failure, ctxVars, cfgVars, backVars, sentReq,
                 respVars, wVars, upgradeCalled, flVars, hjVars, pipeVars>>
  /\ UNCHANGED <<utilsVars, migrateVars>>

\* lines 108-114: the Director hook, then newReq.Close = false
ApplyDirector ==
  /\ pc = "director"
  /\ \E edit \in DirectorEdits :
       /\ outReq' = [(IF hasDirector THEN Director(outReq, edit) ELSE outReq)
                       EXCEPT !.close = FALSE]
       /\ directorEdit' = IF hasDirector THEN edit ELSE "nil"
  /\ pc' = "write"
  /\ UNCHANGED <<deferred, panicked, failure, ctxVars, cfgVars, backVars, sentReq,
                 respVars, wVars, upgradeCalled, flVars, hjVars, pipeVars>>
  /\ UNCHANGED <<utilsVars, migrateVars>>

\* WriteRequest placed ahead of the Director hook, which is then never run
WriteRequestSkipsDirector ==
  /\ pc \in {"director", "write"}
  /\ sentReq' = outReq
  /\ pc' = "read"
  /\ UNCHANGED <<deferred, failure, ctxDone, backendConn, clientConn, wVars>>
  /\ UNCHANGED <<panicked, parentDone, cfgVars, dialCount, backendHalf, outReq,
                 directorEdit, respVars, upgradeCalled, flVars, clientHalf,
                 hijackBuf, readerBuf, writerBuf, clientPost, clientPending,
                 pipeVars>>
  /\ UNCHANGED <<utilsVars, migrateVars>>

\* lines 116-121: newReq.Write(backendConn)
WriteRequest ==
  /\ pc = "write"
  /\ \E ok \in BOOLEAN :
       IF ok
       THEN /\ sentReq' = outReq
            /\ pc' = "read"
            /\ UNCHANGED <<deferred, failure, ctxDone, backendConn, clientConn, wVars>>
       ELSE /\ failure' = "write"
            /\ HttpError(StatusBadGateway)
            /\ RunDefers
            /\ UNCHANGED sentReq
  /\ UNCHANGED <<panicked, parentDone, cfgVars, dialCount, backendHalf, outReq,
                 directorEdit, respVars, upgradeCalled, flVars, clientHalf, hijackBuf,
                 readerBuf, writerBuf, clientPost, clientPending, pipeVars>>
  /\ UNCHANGED <<utilsVars, migrateVars>>

\* the header sections a backend response is given: none, one line, one key
\* with two values in either order, two keys, two keys interleaved
HeaderLines ==
  { <<>>,
    << <<"A", 1>> >>,
    << <<"A", 1>>, <<"A", 2>> >>,
    << <<"A", 2>>, <<"A", 1>> >>,
    << <<"A", 1>>, <<"B", 2>> >>,
    << <<"A", 1>>, <<"B", 1>>, <<"A", 2>> >> }

\* lines 123-129: http.ReadResponse(bufio.NewReader(backendConn), newReq).
\* The backend's response is chosen here.  A 101 has no body; the bytes the
\* backend sends after its headers are the upgraded stream, and the read
\* that completes the headers may take the first k of them into the
\* bufio.Reader, which only ReadResponse holds.
ReadResponse ==
  /\ pc = "read"
  /\ \/ /\ failure' = "parse"
        /\ HttpError(StatusBadGateway)
        /\ RunDefers
        /\ UNCHANGED respVars
     \/ /\ \E st \in Statuses, lines \in HeaderLines, n \in 0..MaxBody :
             LET body == IF st = StatusSwitchingProtocols THEN <<>> ELSE Stream(0, n)
                 after == IF st = StatusSwitchingProtocols THEN Stream(0, n) ELSE <<>>
             IN /\ wire' = [status |-> st, header |-> ParseHeader(lines), body |-> body]
                /\ resp' = [status |-> st, header |-> ParseHeader(lines), body |-> body]
                /\ bodyLeft' = body
                /\ backendSent' = after
                /\ \E k \in 0..Len(after) :
                     /\ respBuf' = SubSeq(after, 1, k)
                     /\ backendPending' = Drop(after, k)
        /\ deferred' = deferred \cup {"Body.Close"}
        /\ pc' = "modify"
        /\ UNCHANGED <<failure, ctxDone, backendConn, clientConn, wVars>>
  /\ UNCHANGED <<panicked, parentDone, cfgVars, dialCount, backendHalf, reqVars,
                 upgradeCalled, flVars, clientHalf, hijackBuf, readerBuf,
                 writerBuf, clientPost, clientPending, pipeVars>>
  /\ UNCHANGED <<utilsVars, migrateVars>>

\* ModifyResponse with the hook's error dropped: the response goes on to
\* the client
ModifyResponseErrorDropped ==
  /\ pc = "modify"
  /\ \/ /\ ~hasModify
        /\ UNCHANGED <<resp, failure>>
     \/ /\ hasModify
        /\ \E st \in Statuses : resp' = [resp EXCEPT !.status = st]
        /\ UNCHANGED failure
     \/ /\ hasModify
        /\ failure' = "hook"
        /\ UNCHANGED resp
  /\ pc' = "commit"
  /\ UNCHANGED <<deferred, ctxDone, backendConn, clientConn, wVars>>
  /\ UNCHANGED <<panicked, parentDone, cfgVars, dialCount, backendHalf, reqVars,
                 wire, backendSent, respBuf, backendPending, bodyLeft,
                 upgradeCalled, flVars, clientHalf, hijackBuf, readerBuf,
                 writerBuf, clientPost, clientPending, pipeVars>>
  /\ UNCHANGED <<utilsVars, migrateVars>>

\* lines 131-139: the ModifyResponse hook; it may rewrite the response it
\* is handed, and it may fail
ModifyResponse ==
  /\ pc = "modify"
  /\ \/ /\ ~hasModify
        /\ pc' = "commit"
        /\ UNCHANGED <<resp, deferred, failure, ctxDone, backendConn, clientConn, wVars>>
     \/ /\ hasModify
        /\ \E st \in Statuses : resp' = [resp EXCEPT !.status = st]
        /\ pc' = "commit"
        /\ UNCHANGED <<deferred, failure, ctxDone, backendConn, clientConn, wVars>>
     \/ /\ hasModify
        /\ failure' = "hook"
        /\ HttpError(StatusBadGateway)
        /\ RunDefers
        /\ UNCHANGED resp
  /\ UNCHANGED <<panicked, parentDone, cfgVars, dialCount, backendHalf, reqVars,
                 wire, backendSent, respBuf, backendPending, bodyLeft,
                 upgradeCalled, flVars, clientHalf, hijackBuf, readerBuf,
                 writerBuf, clientPost, clientPending, pipeVars>>
  /\ UNCHANGED <<utilsVars, migrateVars>>

\* lines 141-149: copy the response headers, w.WriteHeader(status)
CommitHeader ==
  /\ pc = "commit"
  /\ wHeader' = CopyHeader(wHeader, resp.header)
  /\ wStatus' = resp.status
  /\ pc' = "flush"
  /\ UNCHANGED <<deferred, panicked, failure, ctxVars, cfgVars, backVars, reqVars,
                 respVars, wFlushed, wBody, wErrPage, upgradeCalled, flVars,
                 hjVars, pipeVars>>
  /\ UNCHANGED <<utilsVars, migrateVars>>

\* FlushHeader that goes on without flushing when w is no http.Flusher
FlushHeaderDegraded ==
  /\ pc = "flush"
  /\ wFlushed' = wIsFlusher
  /\ pc' = "branch"
  /\ UNCHANGED <<deferred, panicked, ctxDone, backendConn, clientConn>>
  /\ UNCHANGED <<failure, parentDone, cfgVars, dialCount, backendHalf, reqVars,
                 respVars, wStatus, wHeader, wBody, wErrPage, upgradeCalled,
                 flVars, clientHalf, hijackBuf, readerBuf, writerBuf, clientPost,
                 clientPending, pipeVars>>
  /\ UNCHANGED <<utilsVars, migrateVars>>

\* FlushHeader without the Flush call
FlushHeaderNoFlush ==
  /\ pc = "flush"
  /\ IF wIsFlusher
     THEN /\ pc' = "branch"
          /\ UNCHANGED <<deferred, panicked, ctxDone, backendConn, clientConn>>
     ELSE /\ panicked' = TRUE
          /\ RunDefers
  /\ UNCHANGED <<failure, parentDone, cfgVars, dialCount, backendHalf, reqVars,
                 respVars, wVars, upgradeCalled, flVars, clientHalf, hijackBuf,
                 readerBuf, writerBuf, clientPost, clientPending, pipeVars>>
  /\ UNCHANGED <<utilsVars, migrateVars>>

\* lines 150-154: panic unless w is an http.Flusher, else Flush
FlushHeader ==
  /\ pc = "flush"
  /\ IF wIsFlusher
     THEN /\ wFlushed' = TRUE
          /\ pc' = "branch"
          /\ UNCHANGED <<deferred, panicked, ctxDone, backendConn, clientConn>>
     ELSE /\ panicked' = TRUE
          /\ RunDefers
          /\ UNCHANGED wFlushed
  /\ UNCHANGED <<failure, parentDone, cfgVars, dialCount, backendHalf, reqVars,
                 respVars, wStatus, wHeader, wBody, wErrPage, upgradeCalled,
                 flVars, clientHalf, hijackBuf, readerBuf, writerBuf, clientPost,
                 clientPending, pipeVars>>
  /\ UNCHANGED <<utilsVars, migrateVars>>

\* Branch that starts the flusher before looking at the status
BranchFlusherFirst ==
  /\ pc = "branch"
  /\ flusherStarts' = flusherStarts + 1
  /\ fpc' = "init"
  /\ IF resp.status = StatusSwitchingProtocols
     THEN /\ upgradeCalled' = TRUE
          /\ pc' = "hijack"
     ELSE /\ pc' = "copy"
          /\ UNCHANGED upgradeCalled
  /\ UNCHANGED <<deferred, panicked, failure, ctxVars, cfgVars, backVars, reqVars,
                 respVars, wVars, flushes, hjVars, pipeVars>>
  /\ UNCHANGED <<utilsVars, migrateVars>>

\* lines 156-164: a 101 goes to handleUpgradedConnection; anything else
\* starts the periodicHttpFlush goroutine and goes on to the body copy
Branch ==
  /\ pc = "branch"
  /\ IF resp.status = StatusSwitchingProtocols
     THEN /\ upgradeCalled' = TRUE
          /\ pc' = "hijack"
          /\ UNCHANGED <<flusherStarts, fpc>>
     ELSE /\ flusherStarts' = flusherStarts + 1
          /\ fpc' = "init"
          /\ pc' = "copy"
          /\ UNCHANGED upgradeCalled
  /\ UNCHANGED <<deferred, panicked, failure, ctxVars, cfgVars, backVars, reqVars,
                 respVars, wVars, flushes, hjVars, pipeVars>>
  /\ UNCHANGED <<utilsVars, migrateVars>>

\* lines 166-167: one round of io.Copy(w, backendResponse.Body)
CopyChunk ==
  /\ pc = "copy"
  /\ bodyLeft # <<>>
  /\ \E n \in 1..Len(bodyLeft) :
       /\ wBody' = wBody \o SubSeq(bodyLeft, 1, n)
       /\ bodyLeft' = Drop(bodyLeft, n)
  /\ UNCHANGED <<ctlVars, ctxVars, cfgVars, backVars, reqVars, wire, backendSent,
                 respBuf, backendPending, resp, wStatus, wHeader, wFlushed,
                 wErrPage, upgradeCalled, flVars, hjVars, pipeVars>>
  /\ UNCHANGED <<utilsVars, migrateVars>>

\* lines 167-171: io.Copy reaches the end of the body and the handler returns
CopyEOF ==
  /\ pc = "copy"
  /\ bodyLeft = <<>>
  /\ RunDefers
  /\ UNCHANGED <<panicked, failure, parentDone, cfgVars, dialCount, backendHalf,
                 reqVars, respVars, wVars, upgradeCalled, flVars, clientHalf,
                 hijackBuf, readerBuf, writerBuf, clientPost, clientPending,
                 pipeVars>>
  /\ UNCHANGED <<utilsVars, migrateVars>>

\* CopyError that reports the failure with http.Error, as the failures
\* before the commit are reported
CopyErrorReported ==
  /\ pc = "copy"
  /\ failure' = "copy"
  /\ HttpError(StatusInternalServerError)
  /\ RunDefers
  /\ UNCHANGED <<panicked, parentDone, cfgVars, dialCount, backendHalf,
                 reqVars, respVars, upgradeCalled, flVars, clientHalf,
                 hijackBuf, readerBuf, writerBuf, clientPost, clientPending,
                 pipeVars>>
  /\ UNCHANGED <<utilsVars, migrateVars>>

\* lines 167-170: a read of the body or a write to the client fails
CopyError ==
  /\ pc = "copy"
  /\ failure' = "copy"
  /\ RunDefers
  /\ UNCHANGED <<panicked, parentDone, cfgVars, dialCount, backendHalf,
                 reqVars, respVars, wVars, upgradeCalled, flVars, clientHalf,
                 hijackBuf, readerBuf, writerBuf, clientPost, clientPending,
                 pipeVars>>
  /\ UNCHANGED <<utilsVars, migrateVars>>

\* ---------------------------------------------------- periodicHttpFlush
\* lines 56-64: the ticker, and the check that w can flush
FlusherInit ==
  /\ fpc = "init"
  /\ fpc' = IF wIsFlusher THEN "wait" ELSE "done"
  /\ UNCHANGED <<cfgVars, ctlVars, ctxVars, backVars, reqVars, respVars, wVars,
                 upgradeCalled, flusherStarts, flushes, hjVars, pipeVars>>
  /\ UNCHANGED <<utilsVars, migrateVars>>

\* lines 68-71: the outer select takes <-ctx.Done()
FlusherCancelled ==
  /\ fpc = "wait"
  /\ ctxDone
  /\ fpc' = "done"
  /\ UNCHANGED <<cfgVars, ctlVars, ctxVars, backVars, reqVars, respVars, wVars,
                 upgradeCalled, flusherStarts, flushes, hjVars, pipeVars>>
  /\ UNCHANGED <<utilsVars, migrateVars>>

\* line 72: the outer select takes <-ticker.C
FlusherTick ==
  /\ fpc = "wait"
  /\ fpc' = "ticked"
  /\ UNCHANGED <<cfgVars, ctlVars, ctxVars, backVars, reqVars, respVars, wVars,
                 upgradeCalled, flusherStarts, flushes, hjVars, pipeVars>>
  /\ UNCHANGED <<utilsVars, migrateVars>>

\* lines 73-76: the inner select
FlusherCheck ==
  /\ fpc = "ticked"
  /\ fpc' = IF ctxDone THEN "done" ELSE "flush"
  /\ UNCHANGED <<cfgVars, ctlVars, ctxVars, backVars, reqVars, respVars, wVars,
                 upgradeCalled, flusherStarts, flushes, hjVars, pipeVars>>
  /\ UNCHANGED <<utilsVars, migrateVars>>

\* line 77: flusher.Flush()
FlusherFlush ==
  /\ fpc = "flush"
  /\ flushes' = TRUE
  /\ wFlushed' = TRUE
  /\ fpc' = "wait"
  /\ UNCHANGED <<cfgVars, ctlVars, ctxVars, backVars, reqVars, respVars, wStatus,
                 wHeader, wBody, wErrPage, upgradeCalled, flusherStarts, hjVars,
                 pipeVars>>
  /\ UNCHANGED <<utilsVars, migrateVars>>

\* --------------------------------------------- handleUpgradedConnection
\* lines 181-193: rc.Hijack(); on success defer clientConn.Close().  The
\* bytes the HTTP layer holds on the client's read side (1..n), and the bytes
\* the client sends afterwards (11..10+m), are chosen here.
Hijack ==
  /\ pc = "hijack"
  /\ \/ /\ failure' = "hijack"
        /\ HttpError(StatusInternalServerError)
        /\ RunDefers
        /\ UNCHANGED <<clientHalf, hijackBuf, readerBuf, writerBuf, clientPost,
                       clientPending>>
     \/ /\ clientConn' = "open"
        /\ deferred' = deferred \cup {"clientConn.Close"}
        /\ \E h \in BOOLEAN : clientHalf' = h
        /\ \E b \in BOOLEAN : writerBuf' = b
        /\ \E n \in 0..MaxClient :
             /\ hijackBuf' = Stream(0, n)
             /\ readerBuf' = Stream(0, n)
        /\ \E m \in 0..MaxClient :
             /\ clientPost' = Stream(10, m)
             /\ clientPending' = Stream(10, m)
        /\ pc' = "wflush"
        /\ UNCHANGED <<failure, ctxDone, backendConn, wVars>>
  /\ UNCHANGED <<panicked, parentDone, cfgVars, dialCount, backendHalf, reqVars,
                 respVars, upgradeCalled, flVars, pipeVars>>
  /\ UNCHANGED <<utilsVars, migrateVars>>

\* lines 195-201: flush the hijacked writer when it holds bytes
WriterFlush ==
  /\ pc = "wflush"
  /\ \/ /\ writerBuf' = FALSE
        /\ pc' = "replay"
        /\ UNCHANGED <<deferred, failure, ctxDone, backendConn, clientConn, wVars>>
     \/ /\ writerBuf
        /\ failure' = "wflush"
        /\ HttpError(StatusInternalServerError)
        /\ RunDefers
        /\ UNCHANGED writerBuf
  /\ UNCHANGED <<panicked, parentDone, cfgVars, dialCount, backendHalf, reqVars,
                 respVars, upgradeCalled, flVars, clientHalf, hijackBuf,
                 readerBuf, clientPost, clientPending, pipeVars>>
  /\ UNCHANGED <<utilsVars, migrateVars>>

\* ReplayBuffered with the buffered bytes read but never written to the
\* backend
ReplayBufferedDropped ==
  /\ pc = "replay"
  /\ readerBuf' = <<>>
  /\ pc' = "capcheck"
  /\ UNCHANGED <<deferred, panicked, failure, ctxVars, cfgVars, backVars, reqVars,
                 respVars, wVars, upgradeCalled, flVars, clientConn, clientHalf,
                 hijackBuf, writerBuf, clientPost, clientPending, pipeVars>>
  /\ UNCHANGED <<utilsVars, migrateVars>>

\* lines 203-217: read what the hijacked reader holds (a bufio.Reader with
\* bytes in its buffer hands them over without touching the connection, so
\* the read does not fail) and write it to the backend; the write may fail
\* after j of the bytes
ReplayBuffered ==
  /\ pc = "replay"
  /\ readerBuf' = <<>>
  /\ \/ /\ backendIn' = backendIn \o readerBuf
        /\ pc' = "capcheck"
        /\ UNCHANGED <<deferred, failure, ctxDone, backendConn, clientConn, wVars>>
     \/ /\ readerBuf # <<>>
        /\ \E j \in 0..(Len(readerBuf) - 1) :
             backendIn' = backendIn \o SubSeq(readerBuf, 1, j)
        /\ failure' = "replay"
        /\ HttpError(StatusInternalServerError)
        /\ RunDefers
  /\ UNCHANGED <<panicked, parentDone, cfgVars, dialCount, backendHalf, reqVars,
                 respVars, upgradeCalled, flVars, clientHalf, hijackBuf,
                 writerBuf, clientPost, clientPending, clientIn, pipeStarted,
                 loopAB, loopBA, pipeErr>>
  /\ UNCHANGED <<utilsVars, migrateVars>>

\* CapabilityCheck that looks at the backend connection only
CapabilityCheckBackendOnly ==
  /\ pc = "capcheck"
  /\ IF backendHalf
     THEN /\ pc' = "pipe"
          /\ UNCHANGED <<deferred, failure, ctxDone, backendConn, clientConn, wVars>>
     ELSE /\ failure' = "capability"
          /\ HttpError(StatusInternalServerError)
          /\ RunDefers
  /\ UNCHANGED <<panicked, parentDone, cfgVars, dialCount, backendHalf, reqVars,
                 respVars, upgradeCalled, flVars, clientHalf, hijackBuf,
                 readerBuf, writerBuf, clientPost, clientPending, pipeVars>>
  /\ UNCHANGED <<utilsVars, migrateVars>>

\* lines 219-233: both connections must be HalfReadWriteCloser
CapabilityCheck ==
  /\ pc = "capcheck"
  /\ IF backendHalf /\ clientHalf
     THEN /\ pc' = "pipe"
          /\ UNCHANGED <<deferred, failure, ctxDone, backendConn, clientConn, wVars>>
     ELSE /\ failure' = "capability"
          /\ HttpError(StatusInternalServerError)
          /\ RunDefers
  /\ UNCHANGED <<panicked, parentDone, cfgVars, dialCount, backendHalf, reqVars,
                 respVars, upgradeCalled, flVars, clientHalf, hijackBuf,
                 readerBuf, writerBuf, clientPost, clientPending, pipeVars>>
  /\ UNCHANGED <<utilsVars, migrateVars>>

\* line 238: Pipe(xClientConn, xBackendConn) starts its two copy loops
PipeStart ==
  /\ pc = "pipe"
  /\ pipeStarted' = TRUE
  /\ loopAB' = "run"
  /\ loopBA' = "run"
  /\ pc' = "piping"
  /\ UNCHANGED <<deferred, panicked, failure, ctxVars, cfgVars, backVars, reqVars,
                 respVars, wVars, upgradeCalled, flVars, hjVars, backendIn,
                 clientIn, pipeErr>>
  /\ UNCHANGED <<utilsVars, migrateVars>>

\* the client -> backend loop copies what it read from the client
PipeCopyAB ==
  /\ loopAB = "run"
  /\ clientPending # <<>>
  /\ \E n \in 1..Len(clientPending) :
       /\ backendIn' = backendIn \o SubSeq(clientPending, 1, n)
       /\ clientPending' = Drop(clientPending, n)
  /\ UNCHANGED <<ctlVars, ctxVars, cfgVars, backVars, reqVars, respVars, wVars,
                 upgradeCalled, flVars, clientConn, clientHalf, hijackBuf,
                 readerBuf, writerBuf, clientPost, clientIn, pipeStarted, loopAB,
                 loopBA, pipeErr>>
  /\ UNCHANGED <<utilsVars, migrateVars>>

\* the client -> backend loop ends: end of the client's stream, or an error
PipeEndAB ==
  /\ loopAB = "run"
  /\ \/ clientPending = <<>> /\ UNCHANGED pipeErr
     \/ pipeErr' = TRUE
  /\ loopAB' = "done"
  /\ UNCHANGED <<ctlVars, ctxVars, cfgVars, backVars, reqVars, respVars, wVars,
                 upgradeCalled, flVars, hjVars, backendIn, clientIn, pipeStarted,
                 loopBA>>
  /\ UNCHANGED <<utilsVars, migrateVars>>

\* the backend -> client loop copies what it read from backendConn
PipeCopyBA ==
  /\ loopBA = "run"
  /\ backendPending # <<>>
  /\ \E n \in 1..Len(backendPending) :
       /\ clientIn' = clientIn \o SubSeq(backendPending, 1, n)
       /\ backendPending' = Drop(backendPending, n)
  /\ UNCHANGED <<ctlVars, ctxVars, cfgVars, backVars, reqVars, wire, backendSent,
                 respBuf, resp, bodyLeft, wVars, upgradeCalled, flVars, hjVars,
                 backendIn, pipeStarted, loopAB, loopBA, pipeErr>>
  /\ UNCHANGED <<utilsVars, migrateVars>>

\* the backend -> client loop ends: end of the backend's stream, or an error
PipeEndBA ==
  /\ loopBA = "run"
  /\ \/ backendPending = <<>> /\ UNCHANGED pipeErr
     \/ pipeErr' = TRUE
  /\ loopBA' = "done"
  /\ UNCHANGED <<ctlVars, ctxVars, cfgVars, backVars, reqVars, respVars, wVars,
                 upgradeCalled, flVars, hjVars, backendIn, clientIn, pipeStarted,
                 loopAB>>
  /\ UNCHANGED <<utilsVars, migrateVars>>

\* lines 238-243: Pipe returns once both loops are over, with both
\* connections closed; handleUpgradedConnection and forwardRequest return
PipeReturn ==
  /\ pc = "piping"
  /\ loopAB = "done"
  /\ loopBA = "done"
  /\ failure' = IF pipeErr THEN "pipe" ELSE failure
  /\ HttpError(StatusInternalServerError)
  /\ Return("closed", "closed")
  /\ UNCHANGED <<panicked, parentDone, cfgVars, dialCount, backendHalf, reqVars,
                 respVars, upgradeCalled, flVars, clientHalf, hijackBuf,
                 readerBuf, writerBuf, clientPost, clientPending, pipeVars>>
  /\ UNCHANGED <<utilsVars, migrateVars>>

Upgrade ==
  \/ Hijack \/ WriterFlush \/ ReplayBuffered \/ CapabilityCheck \/ PipeStart
  \/ PipeCopyAB \/ PipeEndAB \/ PipeCopyBA \/ PipeEndBA \/ PipeReturn

Forward ==
  \/ Enter \/ DialFail \/ DialOk \/ BuildRequest \/ ApplyDirector
  \/ WriteRequest \/ ReadResponse \/ ModifyResponse \/ CommitHeader
  \/ FlushHeader \/ Branch \/ CopyChunk \/ CopyEOF \/ CopyError

Flusher ==
  FlusherInit \/ FlusherCancelled \/ FlusherTick \/ FlusherCheck \/ FlusherFlush

Next == Forward \/ Flusher \/ Upgrade \/ ParentCancel

Spec == Init /\ [][Next]_vars

\* the goroutine running periodicHttpFlush is scheduled as long as it can
\* take a step (its ticker keeps firing while it waits)
LiveSpec == Init /\ [][Next]_vars /\ WF_vars(Flusher)

\* ============================================================ utils.Pipe
\* Pipe(conn, upstreamAddr) is called: conn is open, its peer and the
\* upstream each have some bytes to send
UtilsInit ==
  /\ ProxyIdle
  /\ MigrateIdle
  /\ upc = "dial"
  /\ upstream = "none"
  /\ conn = "open"
  /\ upstreamEOF = FALSE
  /\ connIn \in {Stream(1, n) : n \in 0..MaxClient}
  /\ upstreamIn \in {Stream(10, m) : m \in 0..MaxBody}
  /\ toUpstream = <<>>
  /\ toConn = <<>>
  /\ c2u = "none"
  /\ u2c = "none"

\* net.Dial fails: logged, Pipe returns
UtilsDialFail ==
  /\ upc = "dial"
  /\ upc' = "returned"
  /\ UNCHANGED <<upstream, conn, upstreamEOF, connIn, upstreamIn, toUpstream,
                 toConn, c2u, u2c>>
  /\ UNCHANGED <<proxyVars, migrateVars>>

\* net.Dial succeeds, upstream.Close is deferred, the goroutine copying conn
\* to upstream is started and Pipe itself starts copying upstream to conn
UtilsDial ==
  /\ upc = "dial"
  /\ upstream' = "open"
  /\ c2u' = "run"
  /\ u2c' = "run"
  /\ upc' = "copy"
  /\ UNCHANGED <<conn, upstreamEOF, connIn, upstreamIn, toUpstream, toConn>>
  /\ UNCHANGED <<proxyVars, migrateVars>>

\* conn's peer ends its output (read gives EOF, writes still work) or
\* drops the connection (reads and writes fail)
ConnPeerClose ==
  /\ upc \in {"dial", "copy"}
  /\ conn = "open"
  /\ conn' \in {"eof", "reset"}
  /\ UNCHANGED <<upc, upstream, upstreamEOF, connIn, upstreamIn, toUpstream,
                 toConn, c2u, u2c>>
  /\ UNCHANGED <<proxyVars, migrateVars>>

\* the upstream's peer ends its output
UpstreamPeerClose ==
  /\ upstream = "open"
  /\ ~upstreamEOF
  /\ upstreamEOF' = TRUE
  /\ UNCHANGED <<upc, upstream, conn, connIn, upstreamIn, toUpstream, toConn,
                 c2u, u2c>>
  /\ UNCHANGED <<proxyVars, migrateVars>>

\* Pipe returns: the deferred upstream.Close() runs; conn is left as it is
UtilsReturn ==
  /\ upstream' = "closed"
  /\ upc' = "returned"

\* the goroutine's io.Copy(upstream, conn) moves one byte; the write fails
\* when upstream has been closed, which ends the copy
C2UCopy ==
  /\ c2u = "run"
  /\ conn # "reset"
  /\ connIn # <<>>
  /\ connIn' = Tail(connIn)
  /\ IF upstream = "open"
     THEN toUpstream' = Append(toUpstream, Head(connIn)) /\ c2u' = c2u
     ELSE toUpstream' = toUpstream /\ c2u' = "ended"
  /\ UNCHANGED <<upc, upstream, conn, upstreamEOF, upstreamIn, toConn, u2c>>
  /\ UNCHANGED <<proxyVars, migrateVars>>

\* the goroutine's io.Copy(upstream, conn) ends on EOF or a read error of
\* conn: the error is logged and the goroutine ends, nothing is closed
C2UEnd ==
  /\ c2u = "run"
  /\ \/ conn = "eof" /\ connIn = <<>>
     \/ conn = "reset"
  /\ c2u' = "ended"
  /\ UNCHANGED <<upc, upstream, conn, upstreamEOF, connIn, upstreamIn,
                 toUpstream, toConn, u2c>>
  /\ UNCHANGED <<proxyVars, migrateVars>>

\* Pipe's io.Copy(conn, upstream) moves one byte; a failed write to conn
\* ends the copy and Pipe returns
U2CCopy ==
  /\ u2c = "run"
  /\ upstreamIn # <<>>
  /\ upstreamIn' = Tail(upstreamIn)
  /\ IF conn # "reset"
     THEN /\ toConn' = Append(toConn, Head(upstreamIn))
          /\ UNCHANGED <<u2c, upstream, upc>>
     ELSE /\ toConn' = toConn
          /\ u2c' = "ended"
          /\ UtilsReturn
  /\ UNCHANGED <<conn, upstreamEOF, connIn, toUpstream, c2u>>
  /\ UNCHANGED <<proxyVars, migrateVars>>

\* Pipe's io.Copy(conn, upstream) ends on the upstream's EOF: Pipe returns
U2CEnd ==
  /\ u2c = "run"
  /\ upstreamIn = <<>>
  /\ upstreamEOF
  /\ u2c' = "ended"
  /\ UtilsReturn
  /\ UNCHANGED <<conn, upstreamEOF, connIn, upstreamIn, toUpstream, toConn, c2u>>
  /\ UNCHANGED <<proxyVars, migrateVars>>

UtilsNext ==
  \/ UtilsDialFail \/ UtilsDial \/ ConnPeerClose \/ UpstreamPeerClose
  \/ C2UCopy \/ C2UEnd \/ U2CCopy \/ U2CEnd

UtilsPipeSpec == UtilsInit /\ [][UtilsNext]_vars

\* ===================================================== migrateWSLDistro
\* a path is the sequence of its components
DiskName == "ext4.vhdx"

\* path.join(dir, name)
PathJoin(dir, name) == Append(dir, name)

\* `${ p }.tmp`
TmpName(p) == Append(p, ".tmp")

\* the paths migrateWSLDistro is called with: equal, unrelated, or the
\* new disk file's path starting with the old disk file's path
Paths == {<<"a">>, <<"b">>, <<"a", "ext4.vhdx", "c">>}

\* the BasePath read from reg.exe's output, a leading \\?\ stripped
ExistingPath(v) == IF v # <<>> /\ Head(v) = "\\\\?\\" THEN Tail(v) ELSE v

OldDisk == PathJoin(oldPath, DiskName)
NewDisk == PathJoin(newPath, DiskName)

\* migrateWSLDistro(oldPath, newPath) is called; the disk file is under
\* oldPath or missing, the registry has any BasePath or none
MigrateInit ==
  /\ ProxyIdle
  /\ UtilsIdle
  /\ mpc = "start"
  /\ platform \in {"win32", "linux"}
  /\ oldPath \in Paths
  /\ newPath \in Paths
  /\ guidFound \in BOOLEAN
  /\ regBasePath \in Paths \cup {<<>>} \cup {<<"\\\\?\\">> \o q : q \in Paths}
  /\ diskPath \in {PathJoin(oldPath, DiskName), <<>>}
  /\ diskRemoved = FALSE
  /\ tryOld = <<>>
  /\ deleteOnFailure = FALSE
  /\ renameErr = ""
  /\ result = ""

\* the platform check, outside the try block
MigratePlatform ==
  /\ mpc = "start"
  /\ mpc' = IF platform = "win32" THEN "guid" ELSE "thrown"
  /\ UNCHANGED <<platform, oldPath, newPath, guidFound, regBasePath, diskPath,
                 diskRemoved, tryOld, deleteOnFailure, renameErr, result>>
  /\ UNCHANGED <<proxyVars, utilsVars>>

\* reg.exe query for the distribution's key: it may fail (caught and
\* logged) or find no GUID, and migrateWSLDistro returns
MigrateQueryGuid ==
  /\ mpc = "guid"
  /\ \E ok \in BOOLEAN :
       mpc' = IF ok /\ guidFound THEN "basepath" ELSE "done"
  /\ UNCHANGED <<platform, oldPath, newPath, guidFound, regBasePath, diskPath,
                 diskRemoved, tryOld, deleteOnFailure, renameErr, result>>
  /\ UNCHANGED <<proxyVars, utilsVars>>

\* reg.exe query for BasePath: return unless it is oldPath
MigrateQueryBasePath ==
  /\ mpc = "basepath"
  /\ \E ok \in BOOLEAN :
       mpc' = IF ok /\ ExistingPath(regBasePath) = oldPath
              THEN "terminate" ELSE "done"
  /\ UNCHANGED <<platform, oldPath, newPath, guidFound, regBasePath, diskPath,
                 diskRemoved, tryOld, deleteOnFailure, renameErr, result>>
  /\ UNCHANGED <<proxyVars, utilsVars>>

\* wsl.exe --terminate, which may fail (caught and logged)
MigrateTerminate ==
  /\ mpc = "terminate"
  /\ \E ok \in BOOLEAN : mpc' = IF ok THEN "call" ELSE "done"
  /\ UNCHANGED <<platform, oldPath, newPath, guidFound, regBasePath, diskPath,
                 diskRemoved, tryOld, deleteOnFailure, renameErr, result>>
  /\ UNCHANGED <<proxyVars, utilsVars>>

\* tryRename called with the default deleteOnFailure
MigrateCallTryRenameDefault ==
  /\ mpc = "call"
  /\ tryOld' = OldDisk
  /\ deleteOnFailure' = TRUE
  /\ mpc' = "tryRename"
  /\ UNCHANGED <<platform, oldPath, newPath, guidFound, regBasePath, diskPath,
                 diskRemoved, renameErr, result>>
  /\ UNCHANGED <<proxyVars, utilsVars>>

\* tryRename(join(oldPath, 'ext4.vhdx'), join(newPath, 'ext4.vhdx'),
\* 'WSL distribution', false)
MigrateCallTryRename ==
  /\ mpc = "call"
  /\ tryOld' = OldDisk
  /\ deleteOnFailure' = FALSE
  /\ mpc' = "tryRename"
  /\ UNCHANGED <<platform, oldPath, newPath, guidFound, regBasePath, diskPath,
                 diskRemoved, renameErr, result>>
  /\ UNCHANGED <<proxyVars, utilsVars>>

\* tryRename up to the mkdir: equal paths are skipped; an old path that
\* is a prefix of the new one is first renamed to its .tmp name, outside
\* the try block, so a failure there is thrown to migrateWSLDistro's catch
TryRenameEnter ==
  /\ mpc = "tryRename"
  /\ IF tryOld = NewDisk
     THEN /\ result' = "skipped"
          /\ mpc' = "regadd"
          /\ UNCHANGED <<diskPath, tryOld>>
     ELSE IF IsPrefix(tryOld, NewDisk)
     THEN \E ok \in BOOLEAN :
            IF ok /\ diskPath = tryOld
            THEN /\ diskPath' = TmpName(tryOld)
                 /\ tryOld' = TmpName(tryOld)
                 /\ mpc' = "move"
                 /\ UNCHANGED result
            ELSE /\ mpc' = "done"
                 /\ UNCHANGED <<diskPath, tryOld, result>>
     ELSE /\ mpc' = "move"
          /\ UNCHANGED <<diskPath, tryOld, result>>
  /\ UNCHANGED <<platform, oldPath, newPath, guidFound, regBasePath,
                 diskRemoved, deleteOnFailure, renameErr>>
  /\ UNCHANGED <<proxyVars, utilsVars>>

\* fs.renameSync fails with one of these codes
RenameErrors == {"ENOENT", "EEXIST", "EPERM"}

\* recursiveRemoveSync(tryOld)
RemoveOld ==
  IF diskPath = tryOld /\ diskPath # <<>>
  THEN diskPath' = <<>> /\ diskRemoved' = TRUE
  ELSE UNCHANGED <<diskPath, diskRemoved>>

\* the rest of tryRename: mkdirSync (outside the try block), then the
\* rename: it succeeds, or fails with ENOENT or EEXIST, or fails with
\* another error and the old path is removed if deleteOnFailure is set
TryRenameMove ==
  /\ mpc = "move"
  /\ \/ /\ mpc' = "done"
        /\ UNCHANGED <<diskPath, diskRemoved, renameErr, result>>
     \/ /\ diskPath = tryOld
        /\ diskPath' = NewDisk
        /\ result' = "succeeded"
        /\ mpc' = "regadd"
        /\ UNCHANGED <<diskRemoved, renameErr>>
     \/ \E err \in RenameErrors :
          /\ renameErr' = err
          /\ result' = "failed"
          /\ mpc' = "regadd"
          /\ IF err \notin {"ENOENT", "EEXIST"} /\ deleteOnFailure
             THEN RemoveOld
             ELSE UNCHANGED <<diskPath, diskRemoved>>
  /\ UNCHANGED <<platform, oldPath, newPath, guidFound, regBasePath, tryOld,
                 deleteOnFailure>>
  /\ UNCHANGED <<proxyVars, utilsVars>>

\* reg.exe add BasePath newPath, only if the rename succeeded; it may fail
MigrateRegAdd ==
  /\ mpc = "regadd"
  /\ IF result = "succeeded"
     THEN \E ok \in BOOLEAN :
            regBasePath' = IF ok THEN newPath ELSE regBasePath
     ELSE UNCHANGED regBasePath
  /\ mpc' = "done"
  /\ UNCHANGED <<platform, oldPath, newPath, guidFound, diskPath, diskRemoved,
                 tryOld, deleteOnFailure, renameErr, result>>
  /\ UNCHANGED <<proxyVars, utilsVars>>

MigrateNext ==
  \/ MigratePlatform \/ MigrateQueryGuid \/ MigrateQueryBasePath
  \/ MigrateTerminate \/ MigrateCallTryRename \/ TryRenameEnter
  \/ TryRenameMove \/ MigrateRegAdd

MigrateSpec == MigrateInit /\ [][MigrateNext]_vars

\* ================================================================ claims
PreCommitFailures == {"dial", "write", "parse", "hook"}

\* C1: when the dial, the request write, the response parse or the
\* ModifyResponse hook fails, the client gets status 502 with an error page,
\* forwardRequest has returned, and nothing of the backend's response (status,
\* header, body byte) has reached the client, nor was an upgrade or a flusher
\* started.
C1_FailureIs502 ==
  failure \in PreCommitFailures =>
    /\ pc = "done"
    /\ wStatus = StatusBadGateway
    /\ wErrPage
    /\ wHeader = EmptyHeader
    /\ wBody = <<>>
    /\ ~upgradeCalled
    /\ fpc = "none"

\* a ModifyResponse failure on a parsed response that has headers and a body
C1_Witness ==
  /\ failure = "hook"
  /\ wStatus = StatusBadGateway
  /\ wire.status = 200
  /\ wire.body # <<>>
  /\ wire.header # EmptyHeader

\* C2: proxy.Dial is called exactly once per forwardRequest: never more than
\* once at any time, and once by the time any later step runs or the handler
\* has returned, whatever the outcome.
C2_DialExactlyOnce ==
  /\ dialCount <= 1
  /\ pc \notin {"enter", "dial"} => dialCount = 1

\* returned after an upgrade that went through the pipe, one dial made
C2_Witness ==
  /\ pc = "done"
  /\ pipeStarted
  /\ dialCount = 1

\* forwardRequest has returned from the non-upgrade branch: the request was
\* dialed, built and written, the response parsed and accepted by the hook,
\* and its status is not 101
NonUpgradeReturned ==
  /\ pc = "done"
  /\ failure \notin PreCommitFailures \cup {"newreq"}
  /\ resp.status # StatusSwitchingProtocols

\* C3 as stated: whenever dial, request write, response parse and
\* ModifyResponse succeeded and the status is not 101, the client has the
\* backend response's status, its headers and its whole body.
C3_AsStated ==
  NonUpgradeReturned =>
    /\ wStatus = resp.status
    /\ wHeader = resp.header
    /\ wBody = wire.body

\* C3, amended: the same when in addition the ResponseWriter is an
\* http.Flusher and the body copy ended without an error; when the body copy
\* ended on an error the status and headers are still the backend
\* response's and the client has a prefix of the body.
C3_StatusHeaderBodyExact ==
  /\ (NonUpgradeReturned /\ ~panicked /\ failure = "") =>
       /\ wStatus = resp.status
       /\ wHeader = resp.header
       /\ wBody = wire.body
  /\ failure = "copy" =>
       /\ wStatus = resp.status
       /\ wHeader = resp.header
       /\ IsPrefix(wBody, wire.body)

\* a 404 with a two-valued header key and a two-byte body, fully delivered
C3_Witness ==
  /\ NonUpgradeReturned /\ ~panicked /\ failure = ""
  /\ wStatus = 404
  /\ wHeader["A"] = <<2, 1>>
  /\ wBody = <<1, 2>>

\* C4: a body byte at the client, a call of the upgrade handler or a started
\* flusher each imply that the backend response's status and headers were
\* already written to the client and flushed.
C4_HeadersFlushedFirst ==
  (wBody # <<>> \/ upgradeCalled \/ fpc # "none") =>
    /\ wFlushed
    /\ wStatus = resp.status
    /\ wHeader = resp.header

\* the first body byte is out while the flusher has not flushed yet
C4_Witness ==
  /\ wBody # <<>>
  /\ bodyLeft # <<>>
  /\ ~flushes
  /\ wFlushed

\* C5: after a 101 upgrade the client receives the bytes the backend sent
\* after its 101 headers, and the backend the bytes the client sent after the
\* upgrade, each exactly once and in order: what has arrived is always a
\* prefix of what was sent, and all of it once the pipe ended without an
\* error, however the backend's bytes were split across reads.
C5_UpgradedStreamsExact ==
  /\ pipeStarted => IsPrefix(clientIn, backendSent)
  /\ pipeStarted => IsPrefix(backendIn, hijackBuf \o clientPost)
  /\ (pc = "done" /\ pipeStarted /\ ~pipeErr) =>
       /\ clientIn = backendSent
       /\ backendIn = hijackBuf \o clientPost

\* C6: the bytes buffered on the client's read side at hijack time reach the
\* backend in order, once, and ahead of every byte the pipe relays from the
\* client: the backend's input is always a prefix of the buffered bytes
\* followed by the client's later bytes, and holds all the buffered bytes
\* once the pipe has started.
C6_HijackBufferFirst ==
  /\ IsPrefix(backendIn, hijackBuf \o clientPost)
  /\ pipeStarted => IsPrefix(hijackBuf, backendIn)

\* two buffered bytes were replayed and the pipe has relayed a later byte
C6_Witness ==
  /\ pipeStarted
  /\ Len(hijackBuf) = 2
  /\ Len(backendIn) > 2

\* C7 as stated: when the capability check has failed, the pipe was not
\* started and no byte has gone from one connection to the other.
C7_AsStated ==
  failure = "capability" =>
    /\ ~pipeStarted
    /\ backendIn = <<>>
    /\ clientIn = <<>>

\* C7, amended: the pipe is started only with both connections half-close
\* capable; with one that is not, the pipe is not started, nothing reaches
\* the client, and the backend gets at most the bytes buffered at hijack
\* time, which are replayed before the capability check; the failed check
\* makes the handler return.
C7_PipeNeedsHalfClose ==
  /\ pipeStarted => (backendHalf /\ clientHalf)
  /\ (Hijacked /\ ~(backendHalf /\ clientHalf)) =>
       /\ ~pipeStarted
       /\ clientIn = <<>>
       /\ IsPrefix(backendIn, hijackBuf)
  /\ failure = "capability" =>
       /\ pc = "done"
       /\ ~(backendHalf /\ clientHalf)
       /\ backendIn = hijackBuf

\* the check fails on the client connection alone, after a replay
C7_Witness ==
  /\ failure = "capability"
  /\ backendHalf
  /\ ~clientHalf
  /\ backendIn = <<1, 2>>

\* C8: once forwardRequest has returned, the backend connection is closed
\* unless the dial failed, in which case none was ever opened, and the
\* client connection is closed if it was hijacked.
C8_ConnectionsClosed ==
  pc = "done" =>
    /\ failure # "dial" => backendConn = "closed"
    /\ failure = "dial" => (backendConn = "none" /\ clientConn = "none")
    /\ Hijacked => clientConn = "closed"

\* returned from a failed replay of the hijack buffer with both closed
C8_Witness ==
  /\ pc = "done"
  /\ failure = "replay"
  /\ backendConn = "closed"
  /\ clientConn = "closed"

\* C9: a committed 101 leads to the upgrade handler and to nothing else: no
\* flusher is started and no body byte goes through the ResponseWriter; a
\* flusher is started at most once and only for a status other than 101.
C9_UpgradeWithoutFlusher ==
  /\ upgradeCalled => (flusherStarts = 0 /\ fpc = "none" /\ wBody = <<>>)
  /\ flusherStarts <= 1
  /\ flusherStarts = 1 => (resp.status # StatusSwitchingProtocols /\ ~upgradeCalled)
  /\ (wFlushed /\ pc # "branch" /\ resp.status = StatusSwitchingProtocols) => upgradeCalled
  /\ (flusherStarts = 0) = (fpc = "none")

\* returned from an upgrade whose pipe ran to its end
C9_Witness ==
  /\ pc = "done"
  /\ upgradeCalled
  /\ pipeStarted
  /\ resp.status = StatusSwitchingProtocols

FlusherRunning == fpc \notin {"none", "done"}

\* C10: the per-request context is cancelled whenever forwardRequest has
\* returned, and follows the cancellation of the inbound request's context;
\* a running flusher whose forwardRequest has returned, or whose inbound
\* request was cancelled, eventually terminates.
C10_ScopeCancelledFlusherStops ==
  /\ [](pc = "done" => ctxDone)
  /\ []((parentDone /\ pc # "enter") => ctxDone)
  /\ (FlusherRunning /\ (pc = "done" \/ parentDone)) ~> (fpc = "done")

\* the flusher has flushed, forwardRequest has returned without the client
\* going away, and the flusher has terminated
C10_Witness ==
  /\ pc = "done"
  /\ ~parentDone
  /\ flushes
  /\ fpc = "done"

\* C11: the flusher never calls Flush once the per-request context is
\* cancelled: every step that is the flusher's Flush call is taken with the
\* context still live (so none is taken after forwardRequest has returned).
C11_NoFlushAfterCancel ==
  [][(fpc = "flush" /\ fpc' = "wait") => ~ctxDone]_vars

\* the tasks whose next step writes to, or flushes, the ResponseWriter
SinkWriters ==
  (IF pc = "copy" /\ bodyLeft # <<>> THEN {"forwardRequest"} ELSE {})
    \cup (IF pc \in {"commit", "flush"} THEN {"forwardRequest"} ELSE {})
    \cup (IF fpc = "flush" THEN {"periodicHttpFlush"} ELSE {})

\* the tasks whose next step writes to the hijacked client connection
ClientConnWriters ==
  (IF pc = "wflush" /\ writerBuf THEN {"handleUpgradedConnection"} ELSE {})
    \cup (IF loopBA = "run" /\ backendPending # <<>> THEN {"Pipe backend->client"} ELSE {})

\* the tasks whose next step writes to the backend connection
BackendConnWriters ==
  (IF pc = "write" THEN {"forwardRequest"} ELSE {})
    \cup (IF pc = "replay" /\ readerBuf # <<>> THEN {"handleUpgradedConnection"} ELSE {})
    \cup (IF loopAB = "run" /\ clientPending # <<>> THEN {"Pipe client->backend"} ELSE {})

\* C14: at every moment each write side (the ResponseWriter, the hijacked
\* client connection, the backend connection) has at most one task about to
\* write to it or flush it.
C14_OneWriterPerSink ==
  /\ Cardinality(SinkWriters) <= 1
  /\ Cardinality(ClientConnWriters) <= 1
  /\ Cardinality(BackendConnWriters) <= 1

PostCommitFailures == {"hijack", "wflush", "replay", "capability", "pipe", "copy"}

\* C12: after a failure that follows the commit of the backend's status
\* (hijack, writer flush, buffer replay, capability check, pipe, body copy)
\* the client still has the backend response's status, no error page and no
\* error status, at most a prefix of the body; the handler has returned and
\* a hijacked client connection is closed.
C12_NoHttpErrorAfterCommit ==
  failure \in PostCommitFailures =>
    /\ pc = "done"
    /\ wStatus = resp.status
    /\ wStatus \notin {StatusInternalServerError, StatusBadGateway}
    /\ ~wErrPage
    /\ wHeader = resp.header
    /\ IsPrefix(wBody, wire.body)
    /\ Hijacked => clientConn = "closed"

\* the replay of the hijack buffer failed after the 101 was committed
C12_Witness ==
  /\ failure = "replay"
  /\ wStatus = StatusSwitchingProtocols
  /\ wFlushed
  /\ clientConn = "closed"

\* C13 as stated: with a ResponseWriter that cannot flush, the client gets
\* a 500 error response and the backend's status is not committed.
C13_AsStated ==
  panicked =>
    /\ wStatus = StatusInternalServerError
    /\ wErrPage

\* C13, amended: a ResponseWriter that cannot flush is found out only after
\* the backend response's status and headers were given to WriteHeader;
\* forwardRequest then panics: no 500 and no error page are written, nothing
\* is flushed, no body byte is written, neither the upgrade handler nor the
\* flusher is started, and the deferred calls close the backend connection
\* and cancel the context.  Every request that gets that far with such a
\* writer ends this way.
C13_UnflushableSinkPanics ==
  /\ panicked =>
       /\ ~wIsFlusher
       /\ pc = "done"
       /\ wStatus = resp.status
       /\ wHeader = resp.header
       /\ ~wErrPage
       /\ ~wFlushed
       /\ wBody = <<>>
       /\ ~upgradeCalled
       /\ fpc = "none"
       /\ backendConn = "closed"
       /\ ctxDone
  /\ (~wIsFlusher /\ pc = "done" /\ failure = "") => panicked
  /\ (~wIsFlusher /\ pc \notin {"enter", "dial", "newreq", "director", "write",
                                 "read", "modify", "commit", "flush"}) => pc = "done"

\* the panic after a 404 with headers was handed to WriteHeader
C13_Witness ==
  /\ panicked
  /\ wStatus = 404
  /\ wHeader # EmptyHeader

\* an outbound request has been serialized onto the backend connection
RequestSent == sentReq # NoRequest

\* C15: whatever the Director did, Close included, the request that leaves
\* the Director step and the request written to the backend have Close off.
C15_KeepAliveForced ==
  /\ directorEdit # "" => ~outReq.close
  /\ RequestSent => ~sentReq.close

\* a Director set Close and the request went out with Close off
C15_Witness ==
  /\ directorEdit = "close"
  /\ RequestSent
  /\ ~sentReq.close

\* C16 as stated: every request written to the backend addresses the fixed
\* scheme and host, whatever the Director.
C16_AsStated ==
  RequestSent =>
    /\ sentReq.scheme = targetProtocol
    /\ sentReq.host = hostHeaderValue

\* C16, amended: the outbound request is built for the fixed scheme and
\* host, and goes to the backend with them when there is no Director or
\* the Director leaves the target alone; the target a Director sets is the
\* one written, the code resetting nothing but Close after the hook.
C16_SyntheticTarget ==
  /\ (pc = "director") =>
       (outReq.scheme = targetProtocol /\ outReq.host = hostHeaderValue)
  /\ (RequestSent /\ directorEdit # "host") =>
       (sentReq.scheme = targetProtocol /\ sentReq.host = hostHeaderValue)
  /\ (RequestSent /\ directorEdit = "host") => sentReq.host # hostHeaderValue

\* a Director that leaves the target alone, and the synthetic host written
C16_Witness ==
  /\ hasDirector
  /\ directorEdit = "none"
  /\ RequestSent
  /\ sentReq.host = hostHeaderValue

\* the backend's status has been committed to the client
Committed == wStatus # 0 /\ ~wErrPage

\* C18: the steps of forwardRequest come in the order dial, Director,
\* request write, response parse, ModifyResponse, commit, body or upgrade,
\* each at most once: a later step's effect implies the earlier ones', the
\* request written is the one the Director left, the status committed is
\* the one ModifyResponse left, and no step's effect is ever redone.
C18_StepOrder ==
  /\ [](/\ dialCount <= 1
        /\ directorEdit # "" => (dialCount = 1 /\ outReq # NoRequest)
        /\ RequestSent => (directorEdit # "" /\ sentReq = outReq)
        /\ resp.status # 0 => RequestSent
        /\ Committed => /\ resp.status # 0
                        /\ pc \notin {"read", "modify", "commit"}
                        /\ wStatus = resp.status
                        /\ wHeader = resp.header
        /\ (wBody # <<>> \/ upgradeCalled \/ flusherStarts > 0) => Committed)
  /\ [][/\ dialCount' >= dialCount
        /\ directorEdit # "" => UNCHANGED <<outReq, directorEdit>>
        /\ RequestSent => UNCHANGED sentReq
        /\ resp.status # 0 => UNCHANGED wire
        /\ (resp.status # 0 /\ resp' # resp) => (pc = "modify" /\ pc' # "modify")
        /\ wStatus # 0 => UNCHANGED <<wStatus, wHeader>>]_vars

\* every step was taken: a Director moved the target, a hook accepted the
\* response, the body was streamed and the handler returned
C18_Witness ==
  /\ pc = "done"
  /\ directorEdit = "host"
  /\ hasModify
  /\ failure = ""
  /\ wBody = <<1, 2>>

\* C17: as soon as either copy direction of utils.Pipe has ended, in either
\* order, the upstream connection is closed, Pipe has returned and the
\* other direction's copy has stopped.
C17_TearDownOnEitherEnd ==
  (c2u = "ended" \/ u2c = "ended") =>
    /\ upstream = "closed"
    /\ upc = "returned"
    /\ c2u = "ended"
    /\ u2c = "ended"


\* C19: in migrateWSLDistro the registry's BasePath changes only after
\* tryRename returned 'succeeded', the disk file being at the new path, and
\* it changes to newPath; once tryRename has returned 'failed' or 'skipped'
\* the registry does not change any more, and the disk file has not been
\* deleted: tryRename ran with deleteOnFailure false, and the file is where
\* it was, under its old name or the .tmp name tryRename gave it.
C19_RegistryAfterRename ==
  /\ [][/\ regBasePath' # regBasePath =>
             /\ result = "succeeded"
             /\ diskPath = NewDisk
             /\ regBasePath' = newPath
        /\ result # "" => result' = result
        /\ diskPath' # diskPath => (diskPath # <<>> /\ diskPath' # <<>>)]_vars
  /\ [](result \in {"failed", "skipped"} =>
          /\ ~deleteOnFailure
          /\ ~diskRemoved
          /\ diskPath \in {<<>>, OldDisk, TmpName(OldDisk)})

\* the rename failed with an error other than ENOENT and EEXIST, the case
\* in which deleteOnFailure decides: the disk file is still under oldPath
\* and the registry still names oldPath
C19_Witness ==
  /\ mpc = "done"
  /\ result = "failed"
  /\ renameErr = "EPERM"
  /\ diskPath = OldDisk
  /\ regBasePath = oldPath

====
